---------------------------- MODULE Spec2Model ----------------------------
(***************************************************************************)
(* A model of DataAssistant (src/data_assistant.py): construction, the     *)
(* schema describer with its cache, the prompt builder, the two provider   *)
(* adapters, the SQL safety gate, the query executor and query().          *)
(*                                                                         *)
(* Python strings are sequences of one-character strings, so that upper(), *)
(* strip(), replace(), startswith() and the `in` test are computed as the  *)
(* interpreter computes them.  The backquote character is written          *)
(* "BACKTICK" (a backquote cannot stand in a TLA+ string).  None is a      *)
(* one-element sequence whose element is no character.  A call that raises *)
(* is a result record with raised = TRUE and the exception's class and     *)
(* message.                                                                *)
(***************************************************************************)
EXTENDS Integers, Sequences, FiniteSets, TLC

VARIABLES
    phase,            \* "new", "ready" (an instance exists) or "failed" (__init__ raised)
    llm_provider,     \* self.llm_provider
    db_config,        \* <<self.server_hostname, self.http_path, self.access_token>>
    table_id,         \* <<self.catalog_name, self.schema_name, self.table_name>>
    table_schema,     \* self._table_schema
    call,             \* the last call made on the assistant: its name and arguments
    outcome,          \* what that call returned or raised
    trace,            \* the external events of that call, in order
    okSchemaCalls,    \* history: get_table_schema calls that returned normally
    okDescribes       \* history: DESCRIBE TABLE statements those calls issued

vars ==
    <<phase, llm_provider, db_config, table_id, table_schema, call, outcome, trace,
      okSchemaCalls, okDescribes>>

---------------------------------------------------------------------------
(* Python values and string operations *)

\* None
None == <<"<None>">>

\* bool(x) of None or a string
Truthy(x) == x # None /\ x # <<>>

\* str.upper() / str.lower() on ASCII text
LowerLetters ==
    <<"a", "b", "c", "d", "e", "f", "g", "h", "i", "j", "k", "l", "m",
      "n", "o", "p", "q", "r", "s", "t", "u", "v", "w", "x", "y", "z">>

UpperLetters ==
    <<"A", "B", "C", "D", "E", "F", "G", "H", "I", "J", "K", "L", "M",
      "N", "O", "P", "Q", "R", "S", "T", "U", "V", "W", "X", "Y", "Z">>

UpperOf ==
    [c \in {LowerLetters[i] : i \in DOMAIN LowerLetters} |->
        UpperLetters[CHOOSE i \in DOMAIN LowerLetters : LowerLetters[i] = c]]

LowerOf ==
    [c \in {UpperLetters[i] : i \in DOMAIN UpperLetters} |->
        LowerLetters[CHOOSE i \in DOMAIN UpperLetters : UpperLetters[i] = c]]

UpperChar(c) == IF c \in DOMAIN UpperOf THEN UpperOf[c] ELSE c

LowerChar(c) == IF c \in DOMAIN LowerOf THEN LowerOf[c] ELSE c

Upper(s) == [i \in 1..Len(s) |-> UpperChar(s[i])]

Lower(s) == [i \in 1..Len(s) |-> LowerChar(s[i])]

\* sub in s
IsIn(sub, s) ==
    \E i \in 0..(Len(s) - Len(sub)) : SubSeq(s, i + 1, i + Len(sub)) = sub

\* s.startswith(p)
StartsWith(s, p) == Len(s) >= Len(p) /\ SubSeq(s, 1, Len(p)) = p

\* the characters str.strip() removes
Whitespace == {" ", "\t", "\n", "\r"}

\* s.strip()
Strip(s) ==
    LET keep == {i \in 1..Len(s) : s[i] \notin Whitespace}
    IN  IF keep = {} THEN <<>>
        ELSE SubSeq(s, CHOOSE i \in keep : \A j \in keep : i <= j,
                       CHOOSE i \in keep : \A j \in keep : i >= j)

\* s.replace(old, new), old not empty: leftmost matches, not overlapping
RECURSIVE Replace(_, _, _)
Replace(s, old, new) ==
    IF Len(s) < Len(old) THEN s
    ELSE IF StartsWith(s, old)
         THEN new \o Replace(SubSeq(s, Len(old) + 1, Len(s)), old, new)
         ELSE <<s[1]>> \o Replace(Tail(s), old, new)

\* sep.join(parts)
RECURSIVE Join(_, _)
Join(parts, sep) ==
    IF parts = <<>> THEN <<>>
    ELSE IF Len(parts) = 1 THEN parts[1]
    ELSE parts[1] \o sep \o Join(Tail(parts), sep)

\* str(x) in an f-string
Str(x) == IF x = None THEN <<"N", "o", "n", "e">> ELSE x

\* a normal return, and a raised exception
NoErr == [kind |-> "none", msg |-> <<>>]

Ok(v) == [raised |-> FALSE, val |-> v, err |-> NoErr]

Raise(k, m) == [raised |-> TRUE, val |-> None, err |-> [kind |-> k, msg |-> m]]

\* an external event of a call
Ev(name, a) == [ev |-> name, arg |-> a]

---------------------------------------------------------------------------
(* String literals of the source *)

\* 'SELECT'
SELECT ==
    <<"S", "E", "L", "E", "C", "T">>

\* 'openai'
OPENAI ==
    <<"o", "p", "e", "n", "a", "i">>

\* 'gemini'
GEMINI ==
    <<"g", "e", "m", "i", "n", "i">>

\* 'OPENAI_API_KEY not found in environment variables'
MsgOpenaiKeyMissing ==
    <<"O", "P", "E", "N", "A", "I", "_", "A", "P", "I", "_", "K", "E", "Y", " ", "n", "o", "t",
      " ", "f", "o", "u", "n", "d", " ", "i", "n", " ", "e", "n", "v", "i", "r", "o", "n", "m",
      "e", "n", "t", " ", "v", "a", "r", "i", "a", "b", "l", "e", "s">>

\* 'GEMINI_API_KEY not found in environment variables'
MsgGeminiKeyMissing ==
    <<"G", "E", "M", "I", "N", "I", "_", "A", "P", "I", "_", "K", "E", "Y", " ", "n", "o", "t",
      " ", "f", "o", "u", "n", "d", " ", "i", "n", " ", "e", "n", "v", "i", "r", "o", "n", "m",
      "e", "n", "t", " ", "v", "a", "r", "i", "a", "b", "l", "e", "s">>

\* 'Unsupported LLM provider: '
MsgUnsupportedProvider ==
    <<"U", "n", "s", "u", "p", "p", "o", "r", "t", "e", "d", " ", "L", "L", "M", " ", "p", "r",
      "o", "v", "i", "d", "e", "r", ":", " ">>

\* 'Databricks configuration incomplete. Check environment variables.'
MsgDatabricksIncomplete ==
    <<"D", "a", "t", "a", "b", "r", "i", "c", "k", "s", " ", "c", "o", "n", "f", "i", "g", "u",
      "r", "a", "t", "i", "o", "n", " ", "i", "n", "c", "o", "m", "p", "l", "e", "t", "e", ".",
      " ", "C", "h", "e", "c", "k", " ", "e", "n", "v", "i", "r", "o", "n", "m", "e", "n", "t",
      " ", "v", "a", "r", "i", "a", "b", "l", "e", "s", ".">>

\* 'DESCRIBE TABLE '
DescribeTablePrefix ==
    <<"D", "E", "S", "C", "R", "I", "B", "E", " ", "T", "A", "B", "L", "E", " ">>

\* '.'
Dot ==
    <<".">>

\* '  - '
ColumnIndent ==
    <<" ", " ", "-", " ">>

\* ': '
ColumnSep ==
    <<":", " ">>

\* '\n'
Newline ==
    <<"\n">>

\* '(three backticks)sql'
FenceSql ==
    <<"BACKTICK", "BACKTICK", "BACKTICK", "s", "q", "l">>

\* '(three backticks)'
Fence ==
    <<"BACKTICK", "BACKTICK", "BACKTICK">>

\* 'OpenAI authentication failed. Please check your API key: '
MsgOpenaiAuth ==
    <<"O", "p", "e", "n", "A", "I", " ", "a", "u", "t", "h", "e", "n", "t", "i", "c", "a", "t",
      "i", "o", "n", " ", "f", "a", "i", "l", "e", "d", ".", " ", "P", "l", "e", "a", "s", "e",
      " ", "c", "h", "e", "c", "k", " ", "y", "o", "u", "r", " ", "A", "P", "I", " ", "k", "e",
      "y", ":", " ">>

\* 'OpenAI rate limit exceeded. Please try again later: '
MsgOpenaiRateLimit ==
    <<"O", "p", "e", "n", "A", "I", " ", "r", "a", "t", "e", " ", "l", "i", "m", "i", "t", " ",
      "e", "x", "c", "e", "e", "d", "e", "d", ".", " ", "P", "l", "e", "a", "s", "e", " ", "t",
      "r", "y", " ", "a", "g", "a", "i", "n", " ", "l", "a", "t", "e", "r", ":", " ">>

\* 'OpenAI API error: '
MsgOpenaiApi ==
    <<"O", "p", "e", "n", "A", "I", " ", "A", "P", "I", " ", "e", "r", "r", "o", "r", ":", " ">>

\* 'Unexpected error calling OpenAI API: '
MsgOpenaiUnexpected ==
    <<"U", "n", "e", "x", "p", "e", "c", "t", "e", "d", " ", "e", "r", "r", "o", "r", " ", "c",
      "a", "l", "l", "i", "n", "g", " ", "O", "p", "e", "n", "A", "I", " ", "A", "P", "I", ":",
      " ">>

\* 'Gemini API error: '
MsgGeminiPrefix ==
    <<"G", "e", "m", "i", "n", "i", " ", "A", "P", "I", " ", "e", "r", "r", "o", "r", ":", " ">>

\* '. Please check your API key and rate limits.'
MsgGeminiSuffix ==
    <<".", " ", "P", "l", "e", "a", "s", "e", " ", "c", "h", "e", "c", "k", " ", "y", "o", "u",
      "r", " ", "A", "P", "I", " ", "k", "e", "y", " ", "a", "n", "d", " ", "r", "a", "t", "e",
      " ", "l", "i", "m", "i", "t", "s", ".">>

\* str() of the AttributeError for self.openai_model
MsgNoOpenaiModel ==
    <<"'", "D", "a", "t", "a", "A", "s", "s", "i", "s", "t", "a", "n", "t", "'", " ", "o", "b",
      "j", "e", "c", "t", " ", "h", "a", "s", " ", "n", "o", " ", "a", "t", "t", "r", "i", "b",
      "u", "t", "e", " ", "'", "o", "p", "e", "n", "a", "i", "_", "m", "o", "d", "e", "l", "'">>

\* str() of the AttributeError for self.gemini_client
MsgNoGeminiClient ==
    <<"'", "D", "a", "t", "a", "A", "s", "s", "i", "s", "t", "a", "n", "t", "'", " ", "o", "b",
      "j", "e", "c", "t", " ", "h", "a", "s", " ", "n", "o", " ", "a", "t", "t", "r", "i", "b",
      "u", "t", "e", " ", "'", "g", "e", "m", "i", "n", "i", "_", "c", "l", "i", "e", "n", "t",
      "'">>

\* "SQL query contains potentially dangerous operation: '"
MsgDangerousPrefix ==
    <<"S", "Q", "L", " ", "q", "u", "e", "r", "y", " ", "c", "o", "n", "t", "a", "i", "n", "s",
      " ", "p", "o", "t", "e", "n", "t", "i", "a", "l", "l", "y", " ", "d", "a", "n", "g", "e",
      "r", "o", "u", "s", " ", "o", "p", "e", "r", "a", "t", "i", "o", "n", ":", " ", "'">>

\* "'. Only SELECT queries are allowed for safety."
MsgDangerousSuffix ==
    <<"'", ".", " ", "O", "n", "l", "y", " ", "S", "E", "L", "E", "C", "T", " ", "q", "u", "e",
      "r", "i", "e", "s", " ", "a", "r", "e", " ", "a", "l", "l", "o", "w", "e", "d", " ", "f",
      "o", "r", " ", "s", "a", "f", "e", "t", "y", ".">>

\* 'Only SELECT queries are allowed. Query must start with SELECT.'
MsgMustStartWithSelect ==
    <<"O", "n", "l", "y", " ", "S", "E", "L", "E", "C", "T", " ", "q", "u", "e", "r", "i", "e",
      "s", " ", "a", "r", "e", " ", "a", "l", "l", "o", "w", "e", "d", ".", " ", "Q", "u", "e",
      "r", "y", " ", "m", "u", "s", "t", " ", "s", "t", "a", "r", "t", " ", "w", "i", "t", "h",
      " ", "S", "E", "L", "E", "C", "T", ".">>

\* prompt template text, data_assistant.py:117-134
PromptHead ==
    <<"Y", "o", "u", " ", "a", "r", "e", " ", "a", " ", "S", "Q", "L", " ", "e", "x", "p", "e",
      "r", "t", ".", " ", "C", "o", "n", "v", "e", "r", "t", " ", "t", "h", "e", " ", "f", "o",
      "l", "l", "o", "w", "i", "n", "g", " ", "n", "a", "t", "u", "r", "a", "l", " ", "l", "a",
      "n", "g", "u", "a", "g", "e", " ", "q", "u", "e", "r", "y", " ", "i", "n", "t", "o", " ",
      "a", " ", "S", "Q", "L", " ", "q", "u", "e", "r", "y", " ", "f", "o", "r", " ", "a", " ",
      "D", "a", "t", "a", "b", "r", "i", "c", "k", "s", " ", "U", "n", "i", "t", "y", " ", "C",
      "a", "t", "a", "l", "o", "g", " ", "t", "a", "b", "l", "e", ".", "\n", "\n", "T", "a",
      "b", "l", "e", ":", " ">>

\* prompt template text, data_assistant.py:117-134
PromptBeforeSchema ==
    <<"\n", "\n", "T", "a", "b", "l", "e", " ", "S", "c", "h", "e", "m", "a", ":", "\n">>

\* prompt template text, data_assistant.py:117-134
PromptBeforeQuestion ==
    <<"\n", "\n", "N", "a", "t", "u", "r", "a", "l", " ", "L", "a", "n", "g", "u", "a", "g",
      "e", " ", "Q", "u", "e", "r", "y", ":", " ">>

\* prompt template text, data_assistant.py:117-134
PromptGuidelines ==
    <<"\n", "\n", "I", "m", "p", "o", "r", "t", "a", "n", "t", " ", "G", "u", "i", "d", "e",
      "l", "i", "n", "e", "s", ":", "\n", "1", ".", " ", "G", "e", "n", "e", "r", "a", "t",
      "e", " ", "O", "N", "L", "Y", " ", "t", "h", "e", " ", "S", "Q", "L", " ", "q", "u", "e",
      "r", "y", " ", "w", "i", "t", "h", "o", "u", "t", " ", "a", "n", "y", " ", "e", "x", "p",
      "l", "a", "n", "a", "t", "i", "o", "n", " ", "o", "r", " ", "m", "a", "r", "k", "d", "o",
      "w", "n", " ", "f", "o", "r", "m", "a", "t", "t", "i", "n", "g", "\n", "2", ".", " ",
      "U", "s", "e", " ", "t", "h", "e", " ", "e", "x", "a", "c", "t", " ", "t", "a", "b", "l",
      "e", " ", "n", "a", "m", "e", ":", " ">>

\* prompt template text, data_assistant.py:117-134
PromptTail ==
    <<"\n", "3", ".", " ", "U", "s", "e", " ", "p", "r", "o", "p", "e", "r", " ", "S", "Q",
      "L", " ", "s", "y", "n", "t", "a", "x", " ", "c", "o", "m", "p", "a", "t", "i", "b", "l",
      "e", " ", "w", "i", "t", "h", " ", "D", "a", "t", "a", "b", "r", "i", "c", "k", "s", " ",
      "S", "Q", "L", "\n", "4", ".", " ", "I", "n", "c", "l", "u", "d", "e", " ", "a", "p",
      "p", "r", "o", "p", "r", "i", "a", "t", "e", " ", "W", "H", "E", "R", "E", ",", " ", "G",
      "R", "O", "U", "P", " ", "B", "Y", ",", " ", "O", "R", "D", "E", "R", " ", "B", "Y", ",",
      " ", "a", "n", "d", " ", "L", "I", "M", "I", "T", " ", "c", "l", "a", "u", "s", "e", "s",
      " ", "a", "s", " ", "n", "e", "e", "d", "e", "d", "\n", "5", ".", " ", "M", "a", "k",
      "e", " ", "s", "u", "r", "e", " ", "c", "o", "l", "u", "m", "n", " ", "n", "a", "m", "e",
      "s", " ", "m", "a", "t", "c", "h", " ", "e", "x", "a", "c", "t", "l", "y", " ", "a", "s",
      " ", "s", "h", "o", "w", "n", " ", "i", "n", " ", "t", "h", "e", " ", "s", "c", "h", "e",
      "m", "a", "\n", "6", ".", " ", "R", "e", "t", "u", "r", "n", " ", "o", "n", "l", "y",
      " ", "t", "h", "e", " ", "S", "Q", "L", " ", "q", "u", "e", "r", "y", ",", " ", "n", "o",
      "t", "h", "i", "n", "g", " ", "e", "l", "s", "e", "\n", "\n", "S", "Q", "L", " ", "Q",
      "u", "e", "r", "y", ":">>
\* data_assistant.py:234-238, in list order
dangerous_operations ==
    << <<"D", "R", "O", "P", " ">>,
       <<"D", "E", "L", "E", "T", "E", " ">>,
       <<"T", "R", "U", "N", "C", "A", "T", "E", " ">>,
       <<"I", "N", "S", "E", "R", "T", " ">>,
       <<"U", "P", "D", "A", "T", "E", " ">>,
       <<"C", "R", "E", "A", "T", "E", " ">>,
       <<"A", "L", "T", "E", "R", " ">>,
       <<"G", "R", "A", "N", "T", " ">>,
       <<"R", "E", "V", "O", "K", "E", " ">>,
       <<"E", "X", "E", "C", " ">>,
       <<"E", "X", "E", "C", "U", "T", "E", " ">>,
       <<"-", "-">>,
       <<"/", "*">>,
       <<"*", "/">>,
       <<"x", "p", "_">>,
       <<"s", "p", "_">> >>

\* Openings of the statements given to the gate: 'SELECT ', 'select ', ' \n Select ', '', 'WITH '
SqlHeads ==
    { <<"S", "E", "L", "E", "C", "T", " ">>,
      <<"s", "e", "l", "e", "c", "t", " ">>,
      <<" ", "\n", " ", "S", "e", "l", "e", "c", "t", " ">>,
      <<>>,
      <<"W", "I", "T", "H", " ">> }

\* Other continuations: '', '1', 'DROP', 'drop_col', '1; DROP TABLE t', '* FROM c.s.t LIMIT 10',
\* 'delete a; drop b', '1 /* x */ -- alter t', 'exec sp_who'
SqlOtherBodies ==
    { <<>>,
      <<"1">>,
      <<"D", "R", "O", "P">>,
      <<"d", "r", "o", "p", "_", "c", "o", "l">>,
      <<"1", ";", " ", "D", "R", "O", "P", " ", "T", "A", "B", "L", "E", " ", "t">>,
      <<"*", " ", "F", "R", "O", "M", " ", "c", ".", "s", ".", "t", " ", "L", "I", "M", "I", "T", " ", "1", "0">>,
      <<"d", "e", "l", "e", "t", "e", " ", "a", ";", " ", "d", "r", "o", "p", " ", "b">>,
      <<"1", " ", "/", "*", " ", "x", " ", "*", "/", " ", "-", "-", " ", "a", "l", "t", "e", "r", " ", "t">>,
      <<"e", "x", "e", "c", " ", "s", "p", "_", "w", "h", "o">> }
\* a provider selector that is neither 'openai' nor 'gemini' (test_data_assistant.py:155)
BadProvider ==
    <<"u", "n", "s", "u", "p", "p", "o", "r", "t", "e", "d">>

\* 'test-key'
ApiKey ==
    <<"t", "e", "s", "t", "-", "k", "e", "y">>

\* 'host'
Hostname ==
    <<"h", "o", "s", "t">>

\* '/sql'
HttpPath ==
    <<"/", "s", "q", "l">>

\* 'token'
AccessToken ==
    <<"t", "o", "k", "e", "n">>

\* 'c'
Catalog ==
    <<"c">>

\* 's'
Schema ==
    <<"s">>

\* 't'
Table ==
    <<"t">>

\* str() of a failure raised by the warehouse driver
DriverMsg ==
    <<"t", "i", "m", "e", "d", " ", "o", "u", "t">>

\* str() of the TypeError at line 274 when cursor.description is None
DescriptionMsg ==
    <<"'", "N", "o", "n", "e", "T", "y", "p", "e", "'", " ", "o", "b", "j", "e", "c", "t", " ",
      "i", "s", " ", "n", "o", "t", " ", "i", "t", "e", "r", "a", "b", "l", "e">>

\* str() of provider failures
AuthMsg ==
    <<"4", "0", "1">>

\* '429'
RateLimitMsg ==
    <<"4", "2", "9">>

\* '500'
ApiErrorMsg ==
    <<"5", "0", "0">>

\* 'boom'
OtherMsg ==
    <<"b", "o", "o", "m">>

\* str() of the IndexError of response.choices[0] on an empty list
IndexMsg ==
    <<"l", "i", "s", "t", " ", "i", "n", "d", "e", "x", " ", "o", "u", "t", " ", "o", "f", " ",
      "r", "a", "n", "g", "e">>

\* 'test prompt'
TestPrompt ==
    <<"t", "e", "s", "t", " ", "p", "r", "o", "m", "p", "t">>

\* questions: 'count rows', ''
Questions ==
    { <<"c", "o", "u", "n", "t", " ", "r", "o", "w", "s">>,
      <<>> }

\* provider response texts: 'SELECT 1', '(three backticks)sql\nselect 1\n(three backticks)', ' select sp_a ', 'DROP TABLE x', ''
LlmTexts ==
    { <<"S", "E", "L", "E", "C", "T", " ", "1">>,
      <<"BACKTICK", "BACKTICK", "BACKTICK", "s", "q", "l", "\n", "s", "e", "l", "e", "c", "t", " ", "1", "\n", "BACKTICK", "BACKTICK", "BACKTICK">>,
      <<" ", "s", "e", "l", "e", "c", "t", " ", "s", "p", "_", "a", " ">>,
      <<"D", "R", "O", "P", " ", "T", "A", "B", "L", "E", " ", "x">>,
      <<>> }

\* statements given to execute_sql: 'SELECT 1', ' select 1', 'DROP TABLE x', 'SELECT xp_a', 'SHOW TABLES'
SqlStatements ==
    { <<"S", "E", "L", "E", "C", "T", " ", "1">>,
      <<" ", "s", "e", "l", "e", "c", "t", " ", "1">>,
      <<"D", "R", "O", "P", " ", "T", "A", "B", "L", "E", " ", "x">>,
      <<"S", "E", "L", "E", "C", "T", " ", "x", "p", "_", "a">>,
      <<"S", "H", "O", "W", " ", "T", "A", "B", "L", "E", "S">> }

\* rows of DESCRIBE TABLE: (col_name, data_type, comment)
AllColumns ==
    << <<<<"i", "d">>, <<"i", "n", "t">>, <<>>>>,
       <<<<"q", "t", "y">>, <<"i", "n", "t">>, <<>>>>,
       <<<<"n", "a", "m", "e">>, <<"s", "t", "r", "i", "n", "g">>, <<>>>> >>
---------------------------------------------------------------------------
(* Construction: __init__ and _initialize_llm *)

\* Mutant of initialize_llm: the presence checks of lines 52 and 59 are left out.
initialize_llm_unchecked(provider, env) ==
    IF provider = OPENAI
    THEN [res |-> Ok(None), trace |-> <<>>]
    ELSE IF provider = GEMINI
    THEN [res |-> Ok(None),
          trace |-> <<Ev("genai.configure", <<>>), Ev("genai.GenerativeModel", <<>>)>>]
    ELSE [res |-> Raise("ValueError", MsgUnsupportedProvider \o Str(provider)),
          trace |-> <<>>]

\* _initialize_llm, lines 47-65; env is os.environ after load_dotenv()
initialize_llm(provider, env) ==
    IF provider = OPENAI
    THEN IF ~Truthy(env.OPENAI_API_KEY)
         THEN [res |-> Raise("ValueError", MsgOpenaiKeyMissing), trace |-> <<>>]
         ELSE [res |-> Ok(None), trace |-> <<>>]
    ELSE IF provider = GEMINI
    THEN IF ~Truthy(env.GEMINI_API_KEY)
         THEN [res |-> Raise("ValueError", MsgGeminiKeyMissing), trace |-> <<>>]
         ELSE [res |-> Ok(None),
               trace |-> <<Ev("genai.configure", <<>>), Ev("genai.GenerativeModel", <<>>)>>]
    ELSE [res |-> Raise("ValueError", MsgUnsupportedProvider \o Str(provider)),
          trace |-> <<>>]

\* llm_provider or os.getenv('LLM_PROVIDER', 'openai'), line 29
selected_provider(arg, env) ==
    IF Truthy(arg) THEN arg
    ELSE IF env.LLM_PROVIDER = None THEN OPENAI ELSE env.LLM_PROVIDER

---------------------------------------------------------------------------
(* The warehouse: get_databricks_connection, get_table_schema, execute_sql *)

\* get_databricks_connection, lines 67-76; w is what the warehouse does in this call
get_databricks_connection(w) ==
    IF ~(Truthy(db_config[1]) /\ Truthy(db_config[2]) /\ Truthy(db_config[3]))
    THEN [res |-> Raise("ValueError", MsgDatabricksIncomplete),
          trace |-> <<Ev("config_incomplete", MsgDatabricksIncomplete)>>]
    ELSE IF w.stage = "connect"
    THEN [res |-> Raise("DriverError", w.msg), trace |-> <<Ev("connect_failed", w.msg)>>]
    ELSE [res |-> Ok(None), trace |-> <<Ev("connect", <<>>)>>]

\* f"{self.catalog_name}.{self.schema_name}.{self.table_name}", lines 88 and 115
full_table_name == Str(table_id[1]) \o Dot \o Str(table_id[2]) \o Dot \o Str(table_id[3])

\* lines 95-101: one "  - name: type" line per row, joined by newlines
render_schema(columns) ==
    Join([i \in 1..Len(columns) |->
            ColumnIndent \o Str(columns[i][1]) \o ColumnSep \o Str(columns[i][2])],
         Newline)

\* get_table_schema, lines 78-102.  The result: what is returned or raised, the
\* value of self._table_schema afterwards, the events, and whether it returned.
get_table_schema(w) ==
    IF Truthy(table_schema)
    THEN [res |-> Ok(table_schema), schema |-> table_schema, trace |-> <<>>]
    ELSE
    LET stmt == DescribeTablePrefix \o full_table_name
        c == get_databricks_connection(w)
        fail(t) == [res |-> Raise("DriverError", w.msg), schema |-> table_schema,
                    trace |-> c.trace \o t]
    IN  IF c.res.raised
        THEN [res |-> c.res, schema |-> table_schema, trace |-> c.trace]
        ELSE IF w.stage = "cursor"
        THEN fail(<<Ev("cursor_failed", w.msg), Ev("connection.close", <<>>)>>)
        ELSE IF w.stage = "execute"
        THEN fail(<<Ev("cursor", <<>>), Ev("execute", stmt), Ev("execute_failed", w.msg),
                    Ev("cursor.close", <<>>), Ev("connection.close", <<>>)>>)
        ELSE IF w.stage = "fetchall"
        THEN fail(<<Ev("cursor", <<>>), Ev("execute", stmt), Ev("fetchall_failed", w.msg),
                    Ev("cursor.close", <<>>), Ev("connection.close", <<>>)>>)
        ELSE LET text == render_schema(w.columns)
             IN  [res |-> Ok(text), schema |-> text,
                  trace |-> c.trace \o
                            <<Ev("cursor", <<>>), Ev("execute", stmt), Ev("fetchall", <<>>),
                              Ev("cursor.close", <<>>), Ev("connection.close", <<>>)>>]

---------------------------------------------------------------------------
(* The prompt builder and the provider adapters *)

\* Mutant of generate_sql_prompt: the table is named by TABLE_NAME alone and the
\* question is stripped of surrounding white space before it is inserted.
generate_sql_prompt_short_name(natural_language_query, w) ==
    LET g == get_table_schema(w)
    IN  IF g.res.raised THEN g
        ELSE [g EXCEPT !.res =
                Ok(PromptHead \o Str(table_id[3]) \o PromptBeforeSchema \o g.res.val
                   \o PromptBeforeQuestion \o Strip(natural_language_query)
                   \o PromptGuidelines \o Str(table_id[3]) \o PromptTail)]
\* generate_sql_prompt, lines 104-136
generate_sql_prompt(natural_language_query, w) ==
    LET g == get_table_schema(w)
    IN  IF g.res.raised THEN g
        ELSE [g EXCEPT !.res =
                Ok(PromptHead \o full_table_name \o PromptBeforeSchema \o g.res.val
                   \o PromptBeforeQuestion \o natural_language_query
                   \o PromptGuidelines \o full_table_name \o PromptTail)]

\* Mutant of strip_fences: the second strip() (end of lines 164 and 192) is left out.
strip_fences_untrimmed(text) ==
    Replace(Replace(Strip(text), FenceSql, <<>>), Fence, <<>>)
\* lines 162-164 and 190-192: strip, drop "```sql", drop "```", strip
strip_fences(text) ==
    Strip(Replace(Replace(Strip(text), FenceSql, <<>>), Fence, <<>>))

\* Mutant of generate_sql_with_openai: no handler for openai.APIError and none for
\* Exception, so those failures leave the adapter as they are.
generate_sql_with_openai_leaking(prompt, l) ==
    IF llm_provider # OPENAI
    THEN [trace |-> <<Ev("attribute_error", MsgNoOpenaiModel)>>,
          res |-> Raise("AttributeError", MsgNoOpenaiModel)]
    ELSE IF l.kind = "ok"
    THEN [trace |-> <<Ev("openai.chat.completions.create", <<>>), Ev("provider_returned", l.text)>>,
          res |-> Ok(strip_fences(l.text))]
    ELSE [trace |-> <<Ev("openai.chat.completions.create", <<>>), Ev("provider_failed", l.msg)>>,
          res |-> IF l.kind = "AuthenticationError"
                  THEN Raise("ValueError", MsgOpenaiAuth \o l.msg)
                  ELSE IF l.kind = "RateLimitError"
                  THEN Raise("ValueError", MsgOpenaiRateLimit \o l.msg)
                  ELSE Raise(l.kind, l.msg)]

\* generate_sql_with_openai, lines 138-173; l is what the provider does in this call.
\* self.openai_model exists only on an instance built for openai (line 51).
generate_sql_with_openai(prompt, l) ==
    IF llm_provider # OPENAI
    THEN [trace |-> <<Ev("attribute_error", MsgNoOpenaiModel)>>,
          res |-> Raise("ValueError", MsgOpenaiUnexpected \o MsgNoOpenaiModel)]
    ELSE IF l.kind = "ok"
    THEN [trace |-> <<Ev("openai.chat.completions.create", <<>>), Ev("provider_returned", l.text)>>,
          res |-> Ok(strip_fences(l.text))]
    ELSE [trace |-> <<Ev("openai.chat.completions.create", <<>>), Ev("provider_failed", l.msg)>>,
          res |-> IF l.kind = "AuthenticationError"
                  THEN Raise("ValueError", MsgOpenaiAuth \o l.msg)
                  ELSE IF l.kind = "RateLimitError"
                  THEN Raise("ValueError", MsgOpenaiRateLimit \o l.msg)
                  ELSE IF l.kind = "APIError"
                  THEN Raise("ValueError", MsgOpenaiApi \o l.msg)
                  ELSE Raise("ValueError", MsgOpenaiUnexpected \o l.msg)]

\* generate_sql_with_gemini, lines 175-196.
\* self.gemini_client exists only on an instance built for gemini (line 62).
generate_sql_with_gemini(prompt, l) ==
    IF llm_provider # GEMINI
    THEN [trace |-> <<Ev("attribute_error", MsgNoGeminiClient)>>,
          res |-> Raise("ValueError", MsgGeminiPrefix \o MsgNoGeminiClient \o MsgGeminiSuffix)]
    ELSE IF l.kind = "ok"
    THEN [trace |-> <<Ev("gemini_client.generate_content", <<>>), Ev("provider_returned", l.text)>>,
          res |-> Ok(strip_fences(l.text))]
    ELSE [trace |-> <<Ev("gemini_client.generate_content", <<>>), Ev("provider_failed", l.msg)>>,
          res |-> Raise("ValueError", MsgGeminiPrefix \o l.msg \o MsgGeminiSuffix)]

\* Mutant of natural_language_to_sql: a failed provider call is made once more.
natural_language_to_sql_retrying(natural_language_query, w, l) ==
    LET p == generate_sql_prompt(natural_language_query, w)
        g == IF llm_provider = OPENAI
             THEN generate_sql_with_openai(p.res.val, l)
             ELSE generate_sql_with_gemini(p.res.val, l)
    IN  IF p.res.raised THEN p
        ELSE [res |-> g.res, schema |-> p.schema,
              trace |-> IF g.res.raised THEN p.trace \o g.trace \o g.trace
                        ELSE p.trace \o g.trace]

\* natural_language_to_sql, lines 198-215
natural_language_to_sql(natural_language_query, w, l) ==
    LET p == generate_sql_prompt(natural_language_query, w)
    IN  IF p.res.raised THEN p
        ELSE IF llm_provider = OPENAI
        THEN LET g == generate_sql_with_openai(p.res.val, l)
             IN  [res |-> g.res, schema |-> p.schema, trace |-> p.trace \o g.trace]
        ELSE IF llm_provider = GEMINI
        THEN LET g == generate_sql_with_gemini(p.res.val, l)
             IN  [res |-> g.res, schema |-> p.schema, trace |-> p.trace \o g.trace]
        ELSE [res |-> Raise("ValueError", MsgUnsupportedProvider \o Str(llm_provider)),
              schema |-> p.schema, trace |-> p.trace]

---------------------------------------------------------------------------
(* The safety gate, the executor and query() *)

\* the first entry of dangerous_operations found in sql_upper, 0 when none is
first_dangerous(sql_upper) ==
    LET hits == {i \in DOMAIN dangerous_operations : IsIn(dangerous_operations[i], sql_upper)}
    IN  IF hits = {} THEN 0 ELSE CHOOSE i \in hits : \A j \in hits : i <= j

\* Mutant of validate_sql_query: the prefix test of line 248 is made on the text
\* as given, neither uppercased nor stripped.
validate_sql_query_verbatim_prefix(sql_query) ==
    LET sql_upper == Upper(sql_query)
        hit == first_dangerous(sql_upper)
    IN  IF hit # 0
        THEN Raise("ValueError",
                   MsgDangerousPrefix \o Strip(dangerous_operations[hit]) \o MsgDangerousSuffix)
        ELSE IF ~StartsWith(sql_query, SELECT)
        THEN Raise("ValueError", MsgMustStartWithSelect)
        ELSE Ok(TRUE)

\* validate_sql_query, lines 217-253
validate_sql_query(sql_query) ==
    LET sql_upper == Upper(sql_query)
        hit == first_dangerous(sql_upper)
    IN  IF hit # 0
        THEN Raise("ValueError",
                   MsgDangerousPrefix \o Strip(dangerous_operations[hit]) \o MsgDangerousSuffix)
        ELSE IF ~StartsWith(Strip(sql_upper), SELECT)
        THEN Raise("ValueError", MsgMustStartWithSelect)
        ELSE Ok(TRUE)

\* dict(zip(columns, row)), line 278
dict_zip(columns, row) ==
    LET n == IF Len(columns) < Len(row) THEN Len(columns) ELSE Len(row)
    IN  [c \in {columns[i] : i \in 1..n} |->
            row[CHOOSE i \in 1..n : columns[i] = c /\ \A j \in 1..n : columns[j] = c => j <= i]]

\* Mutant of execute_sql: the call of validate_sql_query at line 269 is left out.
execute_sql_ungated(sql_query, x) ==
    LET c == get_databricks_connection(x)
    IN  IF c.res.raised
        THEN [res |-> c.res, trace |-> c.trace]
        ELSE IF x.stage # "ok"
        THEN [res |-> Raise("DriverError", x.msg),
              trace |-> c.trace \o <<Ev("cursor", <<>>), Ev("execute", sql_query),
                                     Ev("execute_failed", x.msg),
                                     Ev("cursor.close", <<>>), Ev("connection.close", <<>>)>>]
        ELSE [res |-> Ok([i \in 1..Len(x.rows) |-> dict_zip(x.columns, x.rows[i])]),
              trace |-> c.trace \o
                        <<Ev("cursor", <<>>), Ev("execute", sql_query), Ev("fetchall", <<>>),
                          Ev("cursor.close", <<>>), Ev("connection.close", <<>>)>>]

\* Mutant of execute_sql: the connection and the cursor are closed by calls at the
\* end of the body instead of by the two with statements (lines 271-272), so a
\* failure inside the body leaves what was acquired open.
execute_sql_unscoped(sql_query, x) ==
    LET v == validate_sql_query(sql_query)
        c == get_databricks_connection(x)
        gate == <<Ev("gate_ok", sql_query)>>
        fail(k, t) == [res |-> Raise(k, x.msg), trace |-> gate \o c.trace \o t]
    IN  IF v.raised
        THEN [res |-> v, trace |-> <<Ev("gate_reject", sql_query)>>]
        ELSE IF c.res.raised
        THEN [res |-> c.res, trace |-> gate \o c.trace]
        ELSE IF x.stage = "cursor"
        THEN fail("DriverError", <<Ev("cursor_failed", x.msg)>>)
        ELSE IF x.stage = "execute"
        THEN fail("DriverError", <<Ev("cursor", <<>>), Ev("execute", sql_query),
                                   Ev("execute_failed", x.msg)>>)
        ELSE IF x.stage = "description"
        THEN fail("TypeError", <<Ev("cursor", <<>>), Ev("execute", sql_query),
                                 Ev("description_failed", x.msg)>>)
        ELSE IF x.stage = "fetchall"
        THEN fail("DriverError", <<Ev("cursor", <<>>), Ev("execute", sql_query),
                                   Ev("fetchall_failed", x.msg)>>)
        ELSE [res |-> Ok([i \in 1..Len(x.rows) |-> dict_zip(x.columns, x.rows[i])]),
              trace |-> gate \o c.trace \o
                        <<Ev("cursor", <<>>), Ev("execute", sql_query), Ev("fetchall", <<>>),
                          Ev("cursor.close", <<>>), Ev("connection.close", <<>>)>>]

\* execute_sql, lines 255-278; x is what the warehouse does in this call
execute_sql(sql_query, x) ==
    LET v == validate_sql_query(sql_query)
        c == get_databricks_connection(x)
        gate == <<Ev("gate_ok", sql_query)>>
        fail(k, t) == [res |-> Raise(k, x.msg), trace |-> gate \o c.trace \o t]
    IN  IF v.raised
        THEN [res |-> v, trace |-> <<Ev("gate_reject", sql_query)>>]
        ELSE IF c.res.raised
        THEN [res |-> c.res, trace |-> gate \o c.trace]
        ELSE IF x.stage = "cursor"
        THEN fail("DriverError", <<Ev("cursor_failed", x.msg), Ev("connection.close", <<>>)>>)
        ELSE IF x.stage = "execute"
        THEN fail("DriverError", <<Ev("cursor", <<>>), Ev("execute", sql_query),
                                   Ev("execute_failed", x.msg),
                                   Ev("cursor.close", <<>>), Ev("connection.close", <<>>)>>)
        ELSE IF x.stage = "description"
        THEN fail("TypeError", <<Ev("cursor", <<>>), Ev("execute", sql_query),
                                 Ev("description_failed", x.msg),
                                 Ev("cursor.close", <<>>), Ev("connection.close", <<>>)>>)
        ELSE IF x.stage = "fetchall"
        THEN fail("DriverError", <<Ev("cursor", <<>>), Ev("execute", sql_query),
                                   Ev("fetchall_failed", x.msg),
                                   Ev("cursor.close", <<>>), Ev("connection.close", <<>>)>>)
        ELSE [res |-> Ok([i \in 1..Len(x.rows) |-> dict_zip(x.columns, x.rows[i])]),
              trace |-> gate \o c.trace \o
                        <<Ev("cursor", <<>>), Ev("execute", sql_query), Ev("fetchall", <<>>),
                          Ev("cursor.close", <<>>), Ev("connection.close", <<>>)>>]

\* Mutant of query: no try/except around execute_sql (lines 299-305).
query_propagating(natural_language_query, execute, w, l, x) ==
    LET n == natural_language_to_sql(natural_language_query, w, l)
        sql_query == n.res.val
        result == ("natural_language_query" :> natural_language_query)
                  @@ ("sql_query" :> sql_query)
        e == execute_sql(sql_query, x)
    IN  IF n.res.raised THEN n
        ELSE IF ~execute THEN [n EXCEPT !.res = Ok(result)]
        ELSE [res |-> IF e.res.raised
                      THEN e.res
                      ELSE Ok(result @@ ("results" :> e.res.val) @@ ("status" :> "success")),
              schema |-> n.schema,
              trace |-> n.trace \o e.trace]

\* Mutant of query: "results" is set to an empty list before the try, and the
\* status is set whether or not execution was requested.
query_eager_fields(natural_language_query, execute, w, l, x) ==
    LET n == natural_language_to_sql(natural_language_query, w, l)
        sql_query == n.res.val
        result == ("natural_language_query" :> natural_language_query)
                  @@ ("sql_query" :> sql_query) @@ ("results" :> <<>>)
        e == execute_sql(sql_query, x)
    IN  IF n.res.raised THEN n
        ELSE IF ~execute THEN [n EXCEPT !.res = Ok(result @@ ("status" :> "success"))]
        ELSE [res |-> IF e.res.raised
                      THEN Ok(("status" :> "error") @@ ("error" :> e.res.err.msg) @@ result)
                      ELSE Ok(("results" :> e.res.val) @@ ("status" :> "success") @@ result),
              schema |-> n.schema,
              trace |-> n.trace \o e.trace]

\* Mutant of query: the try of line 299 also covers natural_language_to_sql.
query_catching_generation(natural_language_query, execute, w, l, x) ==
    LET n == natural_language_to_sql(natural_language_query, w, l)
        sql_query == n.res.val
        result == ("natural_language_query" :> natural_language_query)
                  @@ ("sql_query" :> sql_query)
        e == execute_sql(sql_query, x)
    IN  IF n.res.raised
        THEN [n EXCEPT !.res = Ok(("natural_language_query" :> natural_language_query)
                                  @@ ("status" :> "error") @@ ("error" :> n.res.err.msg))]
        ELSE IF ~execute THEN [n EXCEPT !.res = Ok(result)]
        ELSE [res |-> IF e.res.raised
                      THEN Ok(result @@ ("status" :> "error") @@ ("error" :> e.res.err.msg))
                      ELSE Ok(result @@ ("results" :> e.res.val) @@ ("status" :> "success")),
              schema |-> n.schema,
              trace |-> n.trace \o e.trace]

\* query, lines 280-307
query(natural_language_query, execute, w, l, x) ==
    LET n == natural_language_to_sql(natural_language_query, w, l)
        sql_query == n.res.val
        result == ("natural_language_query" :> natural_language_query)
                  @@ ("sql_query" :> sql_query)
        e == execute_sql(sql_query, x)
    IN  IF n.res.raised THEN n
        ELSE IF ~execute THEN [n EXCEPT !.res = Ok(result)]
        ELSE [res |-> IF e.res.raised
                      THEN Ok(result @@ ("status" :> "error") @@ ("error" :> e.res.err.msg))
                      ELSE Ok(result @@ ("results" :> e.res.val) @@ ("status" :> "success")),
              schema |-> n.schema,
              trace |-> n.trace \o e.trace]

---------------------------------------------------------------------------
(* Bounds and the inputs of the calls *)

\* the longest DESCRIBE TABLE answer, in rows
MaxColumns == 1

\* the longest result set of a statement, in rows
MaxRows == 1

\* the history counters stop counting here
MaxCount == 2

ProviderArgs == {None, <<>>, OPENAI, GEMINI, BadProvider}

\* os.environ: the provider selector and the two credentials (None: not set)
Environments ==
    [LLM_PROVIDER : {None, <<>>, GEMINI, BadProvider},
     OPENAI_API_KEY : {None, <<>>, ApiKey},
     GEMINI_API_KEY : {None, ApiKey}]

NoEnv == [LLM_PROVIDER |-> None, OPENAI_API_KEY |-> None, GEMINI_API_KEY |-> None]

\* DATABRICKS_SERVER_HOSTNAME, DATABRICKS_HTTP_PATH, DATABRICKS_ACCESS_TOKEN
DbConfigs ==
    { <<Hostname, HttpPath, AccessToken>>,
      <<None, HttpPath, AccessToken>>,
      <<Hostname, HttpPath, <<>>>> }

\* CATALOG_NAME, SCHEMA_NAME, TABLE_NAME
TableIds == { <<Catalog, Schema, Table>> }

\* what the warehouse does when asked to describe the table
DescribeOutcomes ==
    [stage : {"connect", "cursor", "execute", "fetchall"}, msg : {DriverMsg},
     columns : {<<>>}]
    \cup [stage : {"ok"}, msg : {<<>>},
          columns : {SubSeq(AllColumns, 1, n) : n \in 0..MaxColumns}]

\* what the warehouse does when asked to run a statement
ExecuteOutcomes ==
    [stage : {"connect", "cursor", "execute", "fetchall"}, msg : {DriverMsg},
     columns : {<<>>}, rows : {<<>>}]
    \cup [stage : {"description"}, msg : {DescriptionMsg}, columns : {<<>>}, rows : {<<>>}]
    \cup [stage : {"ok"}, msg : {<<>>}, columns : {<<"n">>},
          rows : {[i \in 1..n |-> <<i>>] : n \in 0..MaxRows}]

\* what the provider does when asked to generate
LlmOutcomes ==
    { [kind |-> "AuthenticationError", msg |-> AuthMsg, text |-> <<>>],
      [kind |-> "RateLimitError", msg |-> RateLimitMsg, text |-> <<>>],
      [kind |-> "APIError", msg |-> ApiErrorMsg, text |-> <<>>],
      [kind |-> "Exception", msg |-> OtherMsg, text |-> <<>>],
      [kind |-> "IndexError", msg |-> IndexMsg, text |-> <<>>] }
    \cup [kind : {"ok"}, msg : {<<>>}, text : LlmTexts]

\* statements given to validate_sql_query
SqlBodies ==
    SqlOtherBodies
    \cup {dangerous_operations[i] : i \in DOMAIN dangerous_operations}
    \cup {Upper(dangerous_operations[i]) : i \in DOMAIN dangerous_operations}
    \cup {Lower(dangerous_operations[i]) : i \in DOMAIN dangerous_operations}

SqlInputs == {h \o b : h \in SqlHeads, b \in SqlBodies}

\* the longest provider response given to the adapters alone, in pieces
MaxPieces == 6

\* pieces of a provider response: a backtick, two backticks, 'sql', a space, a letter
ResponsePieces ==
    { <<"BACKTICK">>, <<"BACKTICK", "BACKTICK">>, <<"s", "q", "l">>, <<" ">>, <<"x">> }

\* response.choices[0].message.content (line 162) and response.text (line 190)
ResponseTexts ==
    UNION { {Join(p, <<>>) : p \in [1..n -> ResponsePieces]} : n \in 0..MaxPieces }

\* CATALOG_NAME, SCHEMA_NAME, TABLE_NAME given to the prompt builder alone: the
\* names of the tests, other names, empty names, and a name that is not set
PromptTableIds ==
    TableIds
    \cup { << <<"m", "a", "i", "n">>, <<"s", "c">>, <<"o", "r", "d", "e", "r", "s">> >>,
           << <<"t">>, <<"t">>, <<"t">> >>,
           << <<>>, <<>>, <<>> >>,
           << None, Schema, Table >> }

\* questions given to the prompt builder alone
PromptQuestions ==
    Questions
    \cup { <<"x">>, <<" ", "t", "o", "p", " ", "1", "\n">>, <<"{", "t", "a", "b", "l", "e", "}">>,
           <<"T", "a", "b", "l", "e", ":", " ", "c", ".", "s", ".", "t">> }

---------------------------------------------------------------------------
(* The state machine: one assistant, one call per step *)

Init ==
    /\ phase = "new"
    /\ llm_provider = None
    /\ db_config = <<None, None, None>>
    /\ table_id = <<None, None, None>>
    /\ table_schema = None
    /\ call = [op |-> "none", arg |-> <<>>, execute |-> FALSE, env |-> NoEnv]
    /\ outcome = Ok(None)
    /\ trace = <<>>
    /\ okSchemaCalls = 0
    /\ okDescribes = 0

Called(op, arg, execute) == [op |-> op, arg |-> arg, execute |-> execute, env |-> NoEnv]

\* the DESCRIBE TABLE statements a call sent
Describes(t) == {i \in DOMAIN t : t[i].ev = "execute" /\ StartsWith(t[i].arg, DescribeTablePrefix)}

Count(n, k) == IF n + k > MaxCount THEN MaxCount ELSE n + k

\* the history of a call that went through get_table_schema
SchemaHistory(w) ==
    \E g \in {get_table_schema(w)} :
    IF g.res.raised
    THEN UNCHANGED <<okSchemaCalls, okDescribes>>
    ELSE /\ okSchemaCalls' = Count(okSchemaCalls, 1)
         /\ okDescribes' = Count(okDescribes, Cardinality(Describes(g.trace)))

\* DataAssistant(llm_provider), lines 18-45
Construct(arg, env, db, tid) ==
    /\ phase = "new"
    /\ \E provider \in {selected_provider(arg, env)} :
       \E i \in {initialize_llm(provider, env)} :
        /\ call' = [op |-> "__init__", arg |-> arg, execute |-> FALSE, env |-> env]
        /\ outcome' = i.res
        /\ trace' = i.trace
        /\ llm_provider' = provider
        /\ db_config' = db
        /\ table_id' = tid
        /\ phase' = IF i.res.raised THEN "failed" ELSE "ready"
        /\ UNCHANGED <<table_schema, okSchemaCalls, okDescribes>>

GetTableSchema(w) ==
    /\ phase = "ready"
    /\ \E g \in {get_table_schema(w)} :
        /\ call' = Called("get_table_schema", <<>>, FALSE)
        /\ outcome' = g.res
        /\ trace' = g.trace
        /\ table_schema' = g.schema
        /\ SchemaHistory(w)
        /\ UNCHANGED <<phase, llm_provider, db_config, table_id>>

GenerateSqlPrompt(q, w) ==
    /\ phase = "ready"
    /\ \E p \in {generate_sql_prompt(q, w)} :
        /\ call' = Called("generate_sql_prompt", q, FALSE)
        /\ outcome' = p.res
        /\ trace' = p.trace
        /\ table_schema' = p.schema
        /\ SchemaHistory(w)
        /\ UNCHANGED <<phase, llm_provider, db_config, table_id>>

GenerateSqlWithOpenai(prompt, l) ==
    /\ phase = "ready"
    /\ \E g \in {generate_sql_with_openai(prompt, l)} :
        /\ call' = Called("generate_sql_with_openai", prompt, FALSE)
        /\ outcome' = g.res
        /\ trace' = g.trace
        /\ UNCHANGED <<phase, llm_provider, db_config, table_id, table_schema,
                       okSchemaCalls, okDescribes>>

GenerateSqlWithGemini(prompt, l) ==
    /\ phase = "ready"
    /\ \E g \in {generate_sql_with_gemini(prompt, l)} :
        /\ call' = Called("generate_sql_with_gemini", prompt, FALSE)
        /\ outcome' = g.res
        /\ trace' = g.trace
        /\ UNCHANGED <<phase, llm_provider, db_config, table_id, table_schema,
                       okSchemaCalls, okDescribes>>

NaturalLanguageToSql(q, w, l) ==
    /\ phase = "ready"
    /\ \E n \in {natural_language_to_sql(q, w, l)} :
        /\ call' = Called("natural_language_to_sql", q, FALSE)
        /\ outcome' = n.res
        /\ trace' = n.trace
        /\ table_schema' = n.schema
        /\ SchemaHistory(w)
        /\ UNCHANGED <<phase, llm_provider, db_config, table_id>>

ValidateSqlQuery(s) ==
    /\ phase = "ready"
    /\ \E v \in {validate_sql_query(s)} :
        /\ call' = Called("validate_sql_query", s, FALSE)
        /\ outcome' = v
        /\ trace' = <<Ev(IF v.raised THEN "gate_reject" ELSE "gate_ok", s)>>
        /\ UNCHANGED <<phase, llm_provider, db_config, table_id, table_schema,
                       okSchemaCalls, okDescribes>>

ExecuteSql(s, x) ==
    /\ phase = "ready"
    /\ \E e \in {execute_sql(s, x)} :
        /\ call' = Called("execute_sql", s, FALSE)
        /\ outcome' = e.res
        /\ trace' = e.trace
        /\ UNCHANGED <<phase, llm_provider, db_config, table_id, table_schema,
                       okSchemaCalls, okDescribes>>

Query(q, execute, w, l, x) ==
    /\ phase = "ready"
    /\ \E r \in {query(q, execute, w, l, x)} :
        /\ call' = Called("query", q, execute)
        /\ outcome' = r.res
        /\ trace' = r.trace
        /\ table_schema' = r.schema
        /\ SchemaHistory(w)
        /\ UNCHANGED <<phase, llm_provider, db_config, table_id>>

\* The answers drawn for a call.  An answer that cannot be asked for is not varied:
\* the warehouse's answer to DESCRIBE TABLE when a schema text is cached, the
\* provider's answer when the describe fails, the warehouse's answer to the
\* statement when execution is not requested or the provider fails.
DescribeAnswers ==
    IF Truthy(table_schema)
    THEN {w \in DescribeOutcomes : w.stage = "ok" /\ Len(w.columns) = MaxColumns}
    ELSE DescribeOutcomes

LlmAnswers(w) ==
    IF w.stage = "ok" THEN LlmOutcomes ELSE {l \in LlmOutcomes : l.kind = "APIError"}

ExecuteAnswers(execute, l) ==
    IF execute /\ l.kind = "ok"
    THEN ExecuteOutcomes
    ELSE {x \in ExecuteOutcomes : x.stage = "execute"}

Next ==
    \/ \E arg \in ProviderArgs, env \in Environments, db \in DbConfigs, tid \in TableIds :
          Construct(arg, env, db, tid)
    \/ \E w \in DescribeAnswers : GetTableSchema(w)
    \/ \E q \in Questions, w \in DescribeAnswers : GenerateSqlPrompt(q, w)
    \/ \E l \in LlmOutcomes : GenerateSqlWithOpenai(TestPrompt, l)
    \/ \E l \in LlmOutcomes : GenerateSqlWithGemini(TestPrompt, l)
    \/ \E q \in Questions, w \in DescribeAnswers : \E l \in LlmAnswers(w) :
          NaturalLanguageToSql(q, w, l)
    \/ \E s \in SqlStatements : ValidateSqlQuery(s)
    \/ \E s \in SqlStatements, x \in ExecuteOutcomes : ExecuteSql(s, x)
    \/ \E q \in Questions, execute \in BOOLEAN, w \in DescribeAnswers :
          \E l \in LlmAnswers(w) : \E x \in ExecuteAnswers(execute, l) :
             Query(q, execute, w, l, x)

Spec == Init /\ [][Next]_vars

(* The safety gate alone, on a built assistant, over a wider set of statements *)

InitGate ==
    /\ phase = "ready"
    /\ llm_provider \in {OPENAI, GEMINI}
    /\ db_config = <<Hostname, HttpPath, AccessToken>>
    /\ table_id \in TableIds
    /\ table_schema = None
    /\ call = [op |-> "none", arg |-> <<>>, execute |-> FALSE, env |-> NoEnv]
    /\ outcome = Ok(None)
    /\ trace = <<>>
    /\ okSchemaCalls = 0
    /\ okDescribes = 0

NextGate == \E s \in SqlInputs : ValidateSqlQuery(s)

SpecGate == InitGate /\ [][NextGate]_vars

(* The two adapters alone, on a built assistant, over a wider set of responses *)

\* each response is given to an assistant that has not been called yet
NextAdapters ==
    /\ call.op = "none"
    /\ \/ \E t \in ResponseTexts :
             GenerateSqlWithOpenai(TestPrompt, [kind |-> "ok", msg |-> <<>>, text |-> t])
       \/ \E t \in ResponseTexts :
             GenerateSqlWithGemini(TestPrompt, [kind |-> "ok", msg |-> <<>>, text |-> t])

SpecAdapters == InitGate /\ [][NextAdapters]_vars

(* The prompt builder alone, on a built assistant that has or has not yet read *)
(* the schema, over wider sets of table names and questions                    *)

InitPrompt ==
    /\ phase = "ready"
    /\ llm_provider \in {OPENAI, GEMINI}
    /\ db_config \in DbConfigs
    /\ table_id \in PromptTableIds
    /\ \/ /\ table_schema = None
          /\ okSchemaCalls = 0
          /\ okDescribes = 0
       \/ /\ Truthy(db_config[1]) /\ Truthy(db_config[2]) /\ Truthy(db_config[3])
          /\ \E w \in DescribeOutcomes :
                /\ w.stage = "ok"
                /\ table_schema = render_schema(w.columns)
          /\ okSchemaCalls = 1
          /\ okDescribes = 1
    /\ call = [op |-> "none", arg |-> <<>>, execute |-> FALSE, env |-> NoEnv]
    /\ outcome = Ok(None)
    /\ trace = <<>>

\* each question is given to an assistant on which no call is recorded yet
NextPrompt ==
    /\ call.op = "none"
    /\ \E q \in PromptQuestions, w \in DescribeAnswers : GenerateSqlPrompt(q, w)

SpecPrompt == InitPrompt /\ [][NextPrompt]_vars

---------------------------------------------------------------------------
(* Vocabulary of the properties *)

\* s.lstrip()
LStrip(s) ==
    LET keep == {i \in 1..Len(s) : s[i] \notin Whitespace}
    IN  IF keep = {} THEN <<>>
        ELSE SubSeq(s, CHOOSE i \in keep : \A j \in keep : i <= j, Len(s))

\* s holds the denylist entry tok, letters compared without regard to case
ContainsIgnoringCase(s, tok) == IsIn(Lower(tok), Lower(s))

Denylisted(s) ==
    \E i \in DOMAIN dangerous_operations : ContainsIgnoringCase(s, dangerous_operations[i])

\* s, leading whitespace removed, starts with SELECT in any case
StartsWithSelect(s) == StartsWith(Lower(LStrip(s)), Lower(SELECT))

\* the positions of the events of the last call that are named in names
At(names) == {i \in DOMAIN trace : trace[i].ev \in names}

\* statements sent to the warehouse other than the schema DESCRIBE TABLE
Executed == {i \in At({"execute"}) : ~StartsWith(trace[i].arg, DescribeTablePrefix)}

GateEvents == {"gate_ok", "gate_reject"}

ProviderCalls == {"openai.chat.completions.create", "gemini_client.generate_content"}

\* remote calls: the warehouse and the two providers
NetworkEvents ==
    ProviderCalls \cup {"connect", "connect_failed", "cursor", "cursor_failed", "execute",
                        "fetchall"}

\* failures of the warehouse session and of the gate
SessionFailures ==
    {"config_incomplete", "connect_failed", "cursor_failed", "execute_failed",
     "description_failed", "fetchall_failed"}

\* the generation stage of the last call ended with the provider's answer
GenerationSucceeded == At({"provider_returned"}) # {}

\* the SQL the generation stage produced
GeneratedSql == strip_fences(trace[CHOOSE i \in At({"provider_returned"}) : TRUE].arg)

\* the generation stage of the last call failed: the describe or the provider did
GenerationFailed ==
    \E i \in At(SessionFailures \cup {"provider_failed"}) :
        \A j \in At({"provider_returned"}) : i < j

\* the execution stage of the last call failed: the gate or the warehouse did
ExecutionFailed ==
    \E i \in At(SessionFailures \cup {"gate_reject"}) :
        \E j \in At({"provider_returned"}) : j < i

---------------------------------------------------------------------------
(* The claims *)

\* C1: validate_sql_query fails on every statement that holds, compared without
\* regard to case, one of the sixteen denylist entries, and on every statement
\* that, leading whitespace removed, does not start with SELECT in any case.
C1_GateRejectsDenylistedOrNotSelect ==
    (call.op = "validate_sql_query"
     /\ (Denylisted(call.arg) \/ ~StartsWithSelect(call.arg)))
    => outcome.raised

\* C1, the part the code keeps: an entry written in capitals, found in any case,
\* and a missing SELECT prefix are both rejected.
C1_GateRejectsCapitalEntries ==
    (call.op = "validate_sql_query"
     /\ (\/ \E i \in DOMAIN dangerous_operations :
               /\ dangerous_operations[i] = Upper(dangerous_operations[i])
               /\ ContainsIgnoringCase(call.arg, dangerous_operations[i])
         \/ ~StartsWithSelect(call.arg)))
    => outcome.raised

\* C2: every statement the cursor executes, other than the schema DESCRIBE TABLE,
\* was given to the safety gate in the same call, the gate accepted it, and only
\* the connection and the cursor were acquired in between; a call in which the
\* gate rejects a statement sends no statement to the warehouse.
C2_ExecutedOnlyAfterGate ==
    /\ \A i \in Executed :
          \E j \in At({"gate_ok"}) :
              /\ j < i
              /\ trace[j].arg = trace[i].arg
              /\ \A k \in (j + 1)..(i - 1) : trace[k].ev \in {"connect", "cursor"}
    /\ At({"gate_reject"}) # {} => Executed = {}

C2_Witness ==
    /\ call.op = "query"
    /\ Executed # {}
    /\ At({"gate_ok"}) # {}

\* C3: a statement that starts with SELECT (any case, leading whitespace allowed)
\* and holds no denylist entry passes the gate, and it is that very statement,
\* character for character, that is executed and that the envelope reports.
C3_AcceptedVerbatim ==
    /\ \A i \in At(GateEvents) :
          (StartsWithSelect(trace[i].arg) /\ ~Denylisted(trace[i].arg))
          => trace[i].ev = "gate_ok"
    /\ call.op \in {"validate_sql_query", "execute_sql"}
       => \A i \in At(GateEvents) \cup Executed : trace[i].arg = call.arg
    /\ (call.op = "validate_sql_query" /\ ~outcome.raised) => outcome.val = TRUE
    /\ (call.op = "query" /\ ~outcome.raised)
       => /\ outcome.val.sql_query = GeneratedSql
          /\ \A i \in At(GateEvents) \cup Executed : trace[i].arg = outcome.val.sql_query

C3_Witness ==
    /\ call.op = "query"
    /\ ~outcome.raised
    /\ Executed # {}
    /\ \E i \in At({"gate_ok"}) :
          /\ StartsWithSelect(trace[i].arg)
          /\ ~Denylisted(trace[i].arg)
          /\ trace[i].arg # Upper(trace[i].arg)

\* C4: in query(question, execute=True), when generation succeeds and the
\* execution stage fails (gate or warehouse), query returns an envelope with
\* status "error", a non-empty error message, no results, and the generated SQL.
C4_ExecutionFailureIsAnEnvelope ==
    (call.op = "query" /\ call.execute /\ GenerationSucceeded /\ ExecutionFailed)
    => /\ ~outcome.raised
       /\ "status" \in DOMAIN outcome.val
       /\ outcome.val.status = "error"
       /\ "error" \in DOMAIN outcome.val
       /\ outcome.val.error # <<>>
       /\ \/ At({"gate_reject"}) # {}
          \/ \E i \in At(SessionFailures) : outcome.val.error = trace[i].arg
       /\ "results" \notin DOMAIN outcome.val
       /\ outcome.val.sql_query = GeneratedSql

C4_Witness ==
    /\ call.op = "query"
    /\ call.execute
    /\ GenerationSucceeded
    /\ At({"connect_failed"}) # {}
    /\ ~outcome.raised
    /\ outcome.val.status = "error"

\* C5: every envelope query returns carries the question and the generated SQL;
\* without execution it carries nothing else; with execution it carries a status
\* that is "success" or "error", with results and no error on success, and with
\* error and no results on error.
C5_EnvelopeShape ==
    (call.op = "query" /\ ~outcome.raised)
    => LET envelope == outcome.val
           fields == DOMAIN envelope
       IN  /\ {"natural_language_query", "sql_query"} \subseteq fields
           /\ envelope.natural_language_query = call.arg
           /\ envelope.sql_query = GeneratedSql
           /\ ~call.execute => fields = {"natural_language_query", "sql_query"}
           /\ call.execute =>
                /\ "status" \in fields
                /\ envelope.status \in {"success", "error"}
                /\ envelope.status = "success" =>
                     fields = {"natural_language_query", "sql_query", "status", "results"}
                /\ envelope.status = "error" =>
                     fields = {"natural_language_query", "sql_query", "status", "error"}

C5_Witness ==
    /\ call.op = "query"
    /\ call.execute
    /\ call.arg # <<>>
    /\ ~outcome.raised
    /\ outcome.val.status = "success"
    /\ outcome.val.results # <<>>

\* C6: when the generation stage of query fails (the schema fetch or the provider
\* call), with or without execution requested, query raises, returns no envelope,
\* and neither the gate nor the executor is reached in that call.
C6_GenerationFailurePropagates ==
    (call.op = "query" /\ GenerationFailed)
    => /\ outcome.raised
       /\ outcome.val = None
       /\ At(GateEvents) = {}
       /\ Executed = {}
       /\ At({"description_failed"}) = {}

C6_Witness ==
    /\ call.op = "query"
    /\ call.execute
    /\ At({"provider_failed"}) # {}
    /\ outcome.raised

\* C7: once get_table_schema has returned, every later call that returns has
\* issued no further DESCRIBE TABLE: the calls that returned issued exactly one
\* between them, whatever the rows of the answer (none included).
C7_OneDescribePerInstance ==
    okSchemaCalls >= 1 => okDescribes = 1

\* C8: construction fails, yields no instance and makes no remote call whenever
\* the credential of the selected provider is missing or the selector is neither
\* of the two known values; for such a selector the message names it.
C8_ConstructionFails ==
    (call.op = "__init__"
     /\ (\/ llm_provider \notin {OPENAI, GEMINI}
         \/ llm_provider = OPENAI /\ ~Truthy(call.env.OPENAI_API_KEY)
         \/ llm_provider = GEMINI /\ ~Truthy(call.env.GEMINI_API_KEY)))
    => /\ outcome.raised
       /\ phase = "failed"
       /\ At(NetworkEvents) = {}
       /\ llm_provider \notin {OPENAI, GEMINI}
          => /\ StartsWith(outcome.err.msg, MsgUnsupportedProvider)
             /\ IsIn(Str(llm_provider), outcome.err.msg)

C8_Witness ==
    /\ call.op = "__init__"
    /\ phase = "failed"
    /\ llm_provider = BadProvider
    /\ IsIn(BadProvider, outcome.err.msg)

\* the provider calls of one query or natural_language_to_sql: at most one, and
\* to the provider selected at construction
OneCallToSelectedProvider ==
    call.op \in {"query", "natural_language_to_sql"}
    => /\ Cardinality(At(ProviderCalls)) <= 1
       /\ llm_provider = OPENAI => At({"gemini_client.generate_content"}) = {}
       /\ llm_provider = GEMINI => At({"openai.chat.completions.create"}) = {}

\* C9: in one query the selected provider is called at most once and the other
\* never, also when the call fails (no retry, no fallback); and the selection made
\* at construction stays, so every generation goes to the same provider.
C9_OneProviderNoRetry ==
    [][/\ OneCallToSelectedProvider'
       /\ phase = "ready" => llm_provider' = llm_provider]_vars

C9_Witness ==
    /\ call.op = "query"
    /\ At({"provider_failed"}) # {}
    /\ Cardinality(At(ProviderCalls)) = 1
    /\ okSchemaCalls >= 2

\* C10: every failure of the provider call or of reading its answer leaves the
\* adapter as a ValueError whose message holds the failure's own message; nothing
\* else is raised by an adapter.
C10_UniformGenerationError ==
    call.op \in {"generate_sql_with_openai", "generate_sql_with_gemini",
                 "natural_language_to_sql"}
    => /\ \A i \in At({"provider_failed", "attribute_error"}) :
             /\ outcome.raised
             /\ outcome.err.kind = "ValueError"
             /\ IsIn(trace[i].arg, outcome.err.msg)
       /\ (outcome.raised /\ At(ProviderCalls) # {}) => outcome.err.kind = "ValueError"

C10_Witness ==
    /\ call.op = "generate_sql_with_openai"
    /\ llm_provider = OPENAI
    /\ \E i \in At({"provider_failed"}) : trace[i].arg = ApiErrorMsg
    /\ outcome.raised
    /\ outcome.err.kind = "ValueError"

\* the text the provider returned in this call, and what the adapter made of it
Returned == {trace[i].arg : i \in At({"provider_returned"})}

\* C11: stripping the fences of a provider response (strip, drop every "```sql",
\* drop every "```", strip) is idempotent: the text an adapter returns holds no
\* triple backtick, has no white space at either end, is left as it is when
\* stripped again, and is the response itself when the response already was so.
C11_FenceStrippingIdempotent ==
    (call.op \in {"generate_sql_with_openai", "generate_sql_with_gemini"}
     /\ Returned # {})
    => /\ ~outcome.raised
       /\ ~IsIn(Fence, outcome.val)
       /\ Strip(outcome.val) = outcome.val
       /\ strip_fences(outcome.val) = outcome.val
       /\ \A t \in Returned : (~IsIn(Fence, t) /\ Strip(t) = t) => outcome.val = t

\* a response in which dropping "```sql" joins the backticks around it into a new
\* fence, which the second replacement drops
C11_Witness ==
    /\ call.op = "generate_sql_with_gemini"
    /\ Returned = { <<"BACKTICK", "BACKTICK", "BACKTICK", "BACKTICK", "BACKTICK",
                      "s", "q", "l", "BACKTICK">> }
    /\ outcome = Ok(<<>>)

\* catalog.schema.table of an assistant whose three names are set
QualifiedName == Join(<<table_id[1], table_id[2], table_id[3]>>, <<".">>)

\* C12: for a question that is not empty and a table whose three names are set,
\* the prompt generate_sql_prompt returns holds, as they are, the name
\* catalog.schema.table, the schema text of the assistant, and the question.
C12_PromptHoldsNameSchemaQuestion ==
    (/\ call.op = "generate_sql_prompt"
     /\ ~outcome.raised
     /\ call.arg # <<>>
     /\ \A i \in 1..3 : table_id[i] # None)
    => /\ IsIn(QualifiedName, outcome.val)
       /\ IsIn(table_schema, outcome.val)
       /\ IsIn(call.arg, outcome.val)

\* a prompt for a question with white space around it, on a table with its own
\* names, with a schema of one column read in this call
C12_Witness ==
    /\ call.op = "generate_sql_prompt"
    /\ ~outcome.raised
    /\ call.arg = <<" ", "t", "o", "p", " ", "1", "\n">>
    /\ table_id[1] = <<"m", "a", "i", "n">>
    /\ table_schema = render_schema(SubSeq(AllColumns, 1, 1))
    /\ At({"execute"}) # {}
\* C13: building the prompt is pure and never fails: whatever the question and
\* the state of the assistant (schema read or not, connection parameters set or
\* not), a generate_sql_prompt call returns a prompt, makes no remote call and
\* changes nothing of the assistant, its schema cache included.
C13_PromptBuildingIsPure ==
    [][call'.op = "generate_sql_prompt"
       => /\ ~outcome'.raised
          /\ \A i \in DOMAIN trace' : trace'[i].ev \notin NetworkEvents
          /\ UNCHANGED <<phase, llm_provider, db_config, table_id, table_schema>>]_vars

\* What holds instead: on an assistant whose cached schema text is not empty the
\* call returns a prompt, makes no remote call and changes nothing.
C13_PureOnceSchemaIsCached ==
    [][(call'.op = "generate_sql_prompt" /\ Truthy(table_schema))
       => /\ ~outcome'.raised
          /\ trace' = <<>>
          /\ UNCHANGED <<phase, llm_provider, db_config, table_id, table_schema>>]_vars
\* how many of the events named are among the first i events of the last call
Seen(names, i) == Cardinality({j \in At(names) : j <= i})

\* connections and cursors open after the first i events of the last call
OpenConnections(i) == Seen({"connect"}, i) - Seen({"connection.close"}, i)

OpenCursors(i) == Seen({"cursor"}, i) - Seen({"cursor.close"}, i)

\* C14: a call releases every warehouse connection and cursor it acquired, on
\* every way out (return, failure to create the cursor, failure of the statement,
\* failure while reading), the cursor before the connection: at any point of a
\* call at most one connection is open, a cursor is open only while its
\* connection is, statements run on the connection the call itself opened,
\* and at the end of every call nothing is open.
C14_ConnectionsScopedToTheCall ==
    /\ \A i \in 0..Len(trace) :
          /\ OpenConnections(i) \in {0, 1}
          /\ OpenCursors(i) \in {0, 1}
          /\ OpenCursors(i) <= OpenConnections(i)
    /\ \A i \in At({"cursor", "cursor_failed", "execute", "execute_failed",
                    "description_failed", "fetchall", "fetchall_failed"}) :
          OpenConnections(i) = 1
    /\ \A i \in At({"execute", "execute_failed", "description_failed", "fetchall",
                    "fetchall_failed"}) :
          OpenCursors(i) = 1
    /\ OpenConnections(Len(trace)) = 0
    /\ OpenCursors(Len(trace)) = 0

\* a query call that opened one connection to describe the table and another to
\* run the statement, which failed while the rows were read
C14_Witness ==
    /\ call.op = "query"
    /\ Seen({"connect"}, Len(trace)) = 2
    /\ Seen({"connection.close"}, Len(trace)) = 2
    /\ Seen({"cursor.close"}, Len(trace)) = 2
    /\ At({"fetchall_failed"}) # {}
    /\ okSchemaCalls >= 1
\* the first entry, in the order of the list, among the entries numbered in hits
\* that s holds in any case (0: none)
FirstHeld(s, hits) ==
    LET held == {i \in hits : ContainsIgnoringCase(s, dangerous_operations[i])}
    IN  IF held = {} THEN 0 ELSE CHOOSE i \in held : \A j \in held : i <= j

\* the message of line 243 for entry i
DangerousMessage(i) ==
    MsgDangerousPrefix \o Strip(dangerous_operations[i]) \o MsgDangerousSuffix

\* the entries of the list written in capitals or without letters
CapitalEntries ==
    {i \in DOMAIN dangerous_operations :
        dangerous_operations[i] = Upper(dangerous_operations[i])}

\* C15: when validate_sql_query rejects a statement, the denylist comes before the
\* prefix: a statement that holds denylisted entries fails with the message that
\* names the first of them in the order of the list, whether or not it starts
\* with SELECT, and the message about the missing SELECT is given only to
\* statements that hold no entry of the list.
C15_DenylistBeforePrefix ==
    (call.op = "validate_sql_query" /\ outcome.raised)
    => LET first == FirstHeld(call.arg, DOMAIN dangerous_operations)
       IN  outcome.err.msg = IF first # 0 THEN DangerousMessage(first)
                             ELSE MsgMustStartWithSelect

\* The part of C15 the code keeps: the same, for the entries written in capitals.
C15_CapitalEntriesBeforePrefix ==
    (call.op = "validate_sql_query" /\ outcome.raised)
    => LET first == FirstHeld(call.arg, CapitalEntries)
       IN  outcome.err.msg = IF first # 0 THEN DangerousMessage(first)
                             ELSE MsgMustStartWithSelect

\* a rejected statement that holds DELETE before DROP and does not start with
\* SELECT: the message names DROP, the first of the two in the list
C15_CapitalEntriesWitness ==
    /\ call.op = "validate_sql_query"
    /\ call.arg = <<"d", "e", "l", "e", "t", "e", " ", "a", ";", " ", "d", "r", "o", "p", " ", "b">>
    /\ outcome.raised
    /\ outcome.err.msg = DangerousMessage(1)
\* the calls that go through get_table_schema
SchemaCalls == {"get_table_schema", "generate_sql_prompt", "natural_language_to_sql", "query"}

\* the events of the call t up to its provider call or its gate: the describe
DescribeStage(t) ==
    {i \in DOMAIN t :
        \A j \in 1..i : t[j].ev \notin ProviderCalls \cup GateEvents \cup {"attribute_error"}}

\* the call t sent DESCRIBE TABLE and read its rows
DescribeCompleted(t) ==
    \E i \in Describes(t) : i < Len(t) /\ t[i + 1].ev = "fetchall"

\* the call t tried to describe the table and failed
DescribeFailed(t) == \E i \in DescribeStage(t) : t[i].ev \in SessionFailures

\* the steps of the cache that C16 and its restriction share: unset on a new
\* assistant, set only in a call whose describe completed, untouched by a call
\* whose describe failed, and described again by the next call while unset
CacheSetByCompletedDescribe ==
    /\ phase = "new" => table_schema = None
    /\ table_schema' # table_schema
          => /\ call'.op \in SchemaCalls
             /\ DescribeCompleted(trace')
             /\ ~DescribeFailed(trace')
    /\ (call'.op \in SchemaCalls /\ DescribeFailed(trace')) => table_schema' = table_schema
    /\ (phase = "ready" /\ table_schema = None /\ call'.op \in SchemaCalls)
          => (DescribeCompleted(trace') \/ DescribeFailed(trace'))

\* C16: the schema cache of an assistant is written once: unset at first, set only
\* by a describe that completed, left as it was by a describe that failed (the
\* next call describes again), and never changed once it has been set.
C16_SchemaCacheWriteOnce ==
    [][/\ CacheSetByCompletedDescribe
       /\ table_schema # None => table_schema' = table_schema]_vars

\* What holds instead: the same, with a cache that never changes once it holds a
\* text that is not empty.
C16_WriteOnceWhenNotEmpty ==
    [][/\ CacheSetByCompletedDescribe
       /\ Truthy(table_schema) => table_schema' = table_schema]_vars

\* the cache holds the text of one column after a describe that completed, on an
\* assistant whose earlier calls included a describe that returned
C16_WhenNotEmptyWitness ==
    /\ call.op = "get_table_schema"
    /\ DescribeCompleted(trace)
    /\ table_schema = render_schema(SubSeq(AllColumns, 1, 1))
    /\ okSchemaCalls >= 2
=============================================================================
